---- MODULE Spec2Model ----
(***************************************************************************)
(* Model of src/func/macros.rs: the function!, parse! and error! macros.   *)
(*                                                                         *)
(* function! turns a declaration (type, optional `type Meta`, a parse      *)
(* definition in one of six forms and a layout definition in one of three  *)
(* forms) into a ParseFunc impl and a LayoutFunc impl.  The declaration    *)
(* rules rewrite the shorthand forms into the 4-argument parse rule and    *)
(* the 2-argument layout rule, which generate the functions.               *)
(*                                                                         *)
(* A code block ($code) is an input of the macros.  It is modelled as a    *)
(* record that says what the block does with the identifiers it names:     *)
(* which body policy (parse!) it applies, how many arguments it takes off  *)
(* the header, whether it early-returns with error!, and so on.            *)
(***************************************************************************)
EXTENDS Integers, Sequences, FiniteSets, TLC

VARIABLES
    call,    \* the invocation handed to ParseFunc::parse (declaration + inputs)
    ppc,     \* "scanned": parse not yet run on `call`; "parsed": it has returned
    last,    \* what the parse call did: see GeneratedParse
    nodes,   \* the command values of the document tree, by node
    lctx,    \* the LayoutContext of the layout pass
    tasks    \* the layout future of each node

vars == <<call, ppc, last, nodes, lctx, tasks>>

(***************************************************************************)
(* Bounds.                                                                 *)
(***************************************************************************)
MaxArgs == 2      \* header.args holds at most this many arguments
MaxTake == 1      \* a code block takes at most this many arguments
MaxBodyLen == 1   \* a body text holds at most this many characters
MaxPasses == 2    \* layout passes over one command value

(***************************************************************************)
(* Values.                                                                 *)
(***************************************************************************)
ArgValues == {"a", "bad"}

RECURSIVE SeqsUpTo(_, _)
SeqsUpTo(S, n) ==
    IF n = 0 THEN {<<>>}
    ELSE LET shorter == SeqsUpTo(S, n - 1)
         IN shorter \cup {Append(s, x) : s \in {t \in shorter : Len(t) = n - 1}, x \in S}

\* Option<&str>: None, or Some(text); Some("") is a present body.
NoBody == [some |-> FALSE, text |-> <<>>]
SomeBody(t) == [some |-> TRUE, text |-> t]
Bodies == {NoBody} \cup {SomeBody(t) : t \in SeqsUpTo({"x"}, MaxBodyLen)}

ParseContexts == {"scope1", "scope2"}

\* FuncHeader: name and args.
Header(n, a) == [name |-> n, args |-> a]

\* TypesetError::with_message(m)
WithMessage(m) == [message |-> m]
NoError == WithMessage(<<>>)

\* format!(template, args...): every "{}" piece is replaced by the next argument.
RECURSIVE Format(_, _)
Format(tpl, fargs) ==
    IF tpl = <<>> THEN <<>>
    ELSE IF Head(tpl) = "{}" /\ fargs # <<>>
         THEN <<Head(fargs)>> \o Format(Tail(tpl), Tail(fargs))
         ELSE <<Head(tpl)>> \o Format(Tail(tpl), fargs)

(***************************************************************************)
(* error!                                                                  *)
(***************************************************************************)
\* (@$($tts)*) => TypesetError::with_message(format!($($tts)*))
ErrorConstruct(tpl, fargs) == WithMessage(Format(tpl, fargs))

\* (@unexpected_argument) => error!(@"unexpected argument")
ErrorUnexpectedArgument == ErrorConstruct(<<"unexpected argument">>, <<>>)

\* Mutant of ErrorReturn: the error is built and the function does not return.
ErrorNoReturn(tpl, fargs) == [returned |-> FALSE, ret |-> ErrorConstruct(tpl, fargs)]

\* ($($tts)*) => return Err(error!(@$($tts)*));
\* The enclosing function returns: returned = TRUE and ret is its result.
ErrorReturn(tpl, fargs) == [returned |-> TRUE, ret |-> ErrorConstruct(tpl, fargs)]

(***************************************************************************)
(* syntax::parse and parse!                                                *)
(***************************************************************************)
\* syntax::parse(body, ctx): a pair whose first component is the parsed content.
NoContent == [src |-> <<>>, ctx |-> "none"]
SyntaxParse(text, ctx) == <<[src |-> text, ctx |-> ctx], "colorization">>

\* What a body policy evaluates to.  tag: "unit" (a statement), "none"/"some"
\* (an Option), "content" (the parsed content itself), "err" (an Err value).
Yield(tag, content, err) == [tag |-> tag, content |-> content, err |-> err]
UnitYield == Yield("unit", NoContent, NoError)

\* An outcome of a piece of code: either the enclosing function returned
\* (returned, ret), or the piece ran on and evaluated to yield.  parses lists
\* the calls of syntax::parse the piece made, as <<text, ctx>>.
RanOn(y) == [returned |-> FALSE, ret |-> NoError, yield |-> y, parses |-> <<>>]
RanOnParsing(y, text, ctx) ==
    [returned |-> FALSE, ret |-> NoError, yield |-> y, parses |-> <<<<text, ctx>>>>]
Returned(e) == [returned |-> TRUE, ret |-> e, yield |-> UnitYield, parses |-> <<>>]

\* Mutant of ParseForbidden: an empty body text passes for no body.
ParseForbiddenNonEmpty(body) ==
    IF body.some /\ body.text # <<>>
    THEN Returned(WithMessage(<<"unexpected body">>))
    ELSE RanOn(UnitYield)

\* (forbidden: $body)
ParseForbidden(body) ==
    IF body.some
    THEN Returned(WithMessage(<<"unexpected body">>))
    ELSE RanOn(UnitYield)

\* Mutant of ParseOptional: an empty body text is not parsed.
ParseOptionalNonEmpty(body, ctx) ==
    IF body.some /\ body.text # <<>>
    THEN RanOnParsing(Yield("some", SyntaxParse(body.text, ctx)[1], NoError),
                      body.text, ctx)
    ELSE RanOn(Yield("none", NoContent, NoError))

\* (optional: $body, $ctx)
ParseOptional(body, ctx) ==
    IF body.some
    THEN RanOnParsing(Yield("some", SyntaxParse(body.text, ctx)[1], NoError),
                      body.text, ctx)
    ELSE RanOn(Yield("none", NoContent, NoError))

\* (expected: $body, $ctx): the else branch is an Err *value*, not a return.
ParseExpected(body, ctx) ==
    IF body.some
    THEN RanOnParsing(Yield("content", SyntaxParse(body.text, ctx)[1], NoError),
                      body.text, ctx)
    ELSE RanOn(Yield("err", NoContent, WithMessage(<<"unexpected body">>)))

\* `parse!(expected: body, ctx)?` in a code block: `?` returns an Err value.
Try(o) ==
    IF ~o.returned /\ o.yield.tag = "err"
    THEN [returned |-> TRUE, ret |-> o.yield.err, yield |-> UnitYield, parses |-> o.parses]
    ELSE o

(***************************************************************************)
(* Command values, results, environments.                                  *)
(***************************************************************************)
\* A value of the declared type ($type): what the code block built.
Value(ty, args, body, meta, diag) ==
    [ty |-> ty, default |-> FALSE, args |-> args, body |-> body, meta |-> meta,
     diag |-> diag]
\* <T as Default>::default()
DefaultValue(ty) ==
    [ty |-> ty, default |-> TRUE, args |-> <<>>, body |-> UnitYield, meta |-> "none",
     diag |-> NoError]
NoValue == DefaultValue("none")

\* ParseResult<Self>
Ok(v) == [ok |-> TRUE, val |-> v, err |-> NoError]
Err(e) == [ok |-> FALSE, val |-> NoValue, err |-> e]

\* The identifiers a code block may name, and the values bound to them.  An
\* identifier the generated function does not bind does not resolve.
UnboundHeader == Header("<unbound>", <<>>)
HeaderOf(env, id) == IF id \in DOMAIN env THEN env[id] ELSE UnboundHeader
BodyOf(env, id) == IF id \in DOMAIN env THEN env[id] ELSE NoBody
CtxOf(env, id) == IF id \in DOMAIN env THEN env[id] ELSE "<unbound>"
MetaOf(env, id) == IF id \in DOMAIN env THEN env[id] ELSE "<unbound>"

(***************************************************************************)
(* Code blocks of parse definitions.                                       *)
(***************************************************************************)
Policies == {"none", "forbidden", "optional", "expected", "expected_try"}

\* policy:    the body policy the block applies first (parse!)
\* take:      how many arguments it then takes off `header.args`
\* validate:  whether it runs error!("invalid argument: {}", a) on a bad one
\* construct: whether it stores error!(@unexpected_argument) in the value
\* useMeta:   whether it stores `meta` in the value
ParseCodes ==
    {c \in [policy : Policies, take : 0..MaxTake, validate : BOOLEAN,
            construct : BOOLEAN, useMeta : BOOLEAN] : c.validate => c.take > 0}

\* How many of the parameters (header, body, ctx, meta) the block names.
UsedParams(c) ==
    IF c.useMeta THEN 4
    ELSE IF c.policy \in {"optional", "expected", "expected_try"} THEN 3
    ELSE IF c.policy = "forbidden" THEN 2
    ELSE IF c.take > 0 THEN 1
    ELSE 0

UserParams == <<"header", "body", "ctx", "meta">>

\* The body policy of a block, applied to the identifiers `body` and `ctx`.
ApplyPolicy(c, env) ==
    LET body == BodyOf(env, "body")
        ctx == CtxOf(env, "ctx")
    IN CASE c.policy = "none" -> RanOn(UnitYield)
         [] c.policy = "forbidden" -> ParseForbidden(body)
         [] c.policy = "optional" -> ParseOptional(body, ctx)
         [] c.policy = "expected" -> ParseExpected(body, ctx)
         [] c.policy = "expected_try" -> Try(ParseExpected(body, ctx))

Min(a, b) == IF a < b THEN a ELSE b

\* Run a block.  The outcome: whether the function returned early (and ret,
\* its error), the value built, the policy's outcome, the environment after.
EvalCode(c, ty, env) ==
    LET p == ApplyPolicy(c, env)
        hdr == HeaderOf(env, "header")
        n == Min(c.take, Len(hdr.args))
        taken == SubSeq(hdr.args, 1, n)
        rest == SubSeq(hdr.args, n + 1, Len(hdr.args))
        env2 == IF n > 0 THEN [env EXCEPT !["header"] = Header(hdr.name, rest)] ELSE env
        early == IF c.validate /\ \E i \in 1..n : taken[i] = "bad"
                 THEN ErrorReturn(<<"invalid argument: ", "{}">>, <<"bad">>)
                 ELSE [returned |-> FALSE, ret |-> NoError]
        diag == IF c.construct THEN ErrorUnexpectedArgument ELSE NoError
        meta == IF c.useMeta THEN MetaOf(env, "meta") ELSE "none"
    IN IF p.returned
       THEN [returned |-> TRUE, ret |-> p.ret, val |-> NoValue, policy |-> p, env |-> env]
       ELSE IF early.returned
       THEN [returned |-> TRUE, ret |-> early.ret, val |-> NoValue, policy |-> p,
             env |-> env2]
       ELSE [returned |-> FALSE, ret |-> NoError,
             val |-> Value(ty, taken, p.yield, meta, diag), policy |-> p, env |-> env2]

\* Mutant of EvalDefault: the default of the metadata type.
EvalDefaultMeta(ty, metaTy, env) ==
    [returned |-> FALSE, ret |-> NoError, val |-> DefaultValue(metaTy),
     policy |-> RanOn(UnitYield), env |-> env]

\* `{ Default::default() }`: the block's value is the function's Ok value, so
\* the default is that of Self ($type), whatever $meta is.
EvalDefault(ty, metaTy, env) ==
    [returned |-> FALSE, ret |-> NoError, val |-> DefaultValue(ty),
     policy |-> RanOn(UnitYield), env |-> env]

(***************************************************************************)
(* function!: the declaration rules.                                       *)
(***************************************************************************)
\* A declaration, parse part:
\*   ty        $type
\*   metaDecl  "absent", or the $meta of `type Meta = $meta;`
\*   default   TRUE for `parse(default)`
\*   params    the identifiers of `parse(...)`, none to four of them
\*   code      the parse $code
TypeNames == {"Func"}
MetaTypes == {"Cfg"}

\* (@meta): `type Meta = $meta;`, or `()` if there is no type definition.
MetaRule(d) == IF d.metaDecl = "absent" THEN "()" ELSE d.metaDecl

\* The values of a metadata type, and which one is its Default::default().
MetaValues(metaTy) == IF metaTy = "()" THEN {"()"} ELSE {"cfg0", "cfg1"}

NoCode ==
    [policy |-> "none", take |-> 0, validate |-> FALSE, construct |-> FALSE,
     useMeta |-> FALSE]

\* What a parse rule hands to the 4-argument rule.
Parse4(header, body, ctx, metadata, isDefault, code) ==
    [params |-> <<header, body, ctx, metadata>>, default |-> isDefault, code |-> code]

\* (@parse ... parse(default)) => parse(_args, _body, _ctx, _meta) { Default::default() }
RuleParseDefault == Parse4("_args", "_body", "_ctx", "_meta", TRUE, NoCode)

\* (0-arg) parse() $code => parse(_args, _body, _ctx, _meta) $code
RuleParse0(code) == Parse4("_args", "_body", "_ctx", "_meta", FALSE, code)

\* Mutant of RuleParse1: the header identifier is dropped, as in the 0-arg rule.
RuleParse1DropsHeader(header, code) ==
    Parse4("_args", "_body", "_ctx", "_meta", FALSE, code)

\* (1-arg) parse($header) $code => parse($header, _body, _ctx, _meta) $code
RuleParse1(header, code) == Parse4(header, "_body", "_ctx", "_meta", FALSE, code)

\* (2-arg) parse($header, $body) $code => parse($header, $body, _ctx, _meta) $code
RuleParse2(header, body, code) == Parse4(header, body, "_ctx", "_meta", FALSE, code)

\* (3-arg) parse($header, $body, $ctx) $code => parse($header, $body, $ctx, _meta) $code
RuleParse3(header, body, ctx, code) == Parse4(header, body, ctx, "_meta", FALSE, code)

\* The rule a declaration's parse definition matches.
ExpandParse(d) ==
    IF d.default THEN RuleParseDefault
    ELSE CASE Len(d.params) = 0 -> RuleParse0(d.code)
           [] Len(d.params) = 1 -> RuleParse1(d.params[1], d.code)
           [] Len(d.params) = 2 -> RuleParse2(d.params[1], d.params[2], d.code)
           [] Len(d.params) = 3 -> RuleParse3(d.params[1], d.params[2], d.params[3], d.code)
           [] Len(d.params) = 4 ->
                Parse4(d.params[1], d.params[2], d.params[3], d.params[4], FALSE, d.code)

(***************************************************************************)
(* function!: the generated ParseFunc::parse (the 4-argument rule).        *)
(***************************************************************************)
\* Mutant of ExhaustionCheck: no check.
ExhaustionCheckSkipped(header, val) == Ok(val)

\* Mutant of ExhaustionCheck: the check fails with error!(@unexpected_argument).
ExhaustionCheckCanonical(header, val) ==
    IF header.args # <<>> THEN Err(ErrorUnexpectedArgument) ELSE Ok(val)

\* if !$header.args.is_empty() { return Err("unexpected arguments") } Ok(val)
ExhaustionCheck(header, val) ==
    IF header.args # <<>>
    THEN Err(WithMessage(<<"unexpected arguments">>))
    ELSE Ok(val)

\* fn parse(header, $body, $ctx, $metadata) -> ParseResult<Self>
\*   ran:      the code block ran to completion (no early return)
\*   leftover: $header.args once the block is done
\*   val:      the value of the block
\*   policy:   the outcome of the block's body policy
\*   result:   what the call returns
GeneratedParse(ty, metaTy, e, header, body, ctx, metadata) ==
    LET env0 == (e.params[1] :> header) @@ (e.params[2] :> body)
                @@ (e.params[3] :> ctx) @@ (e.params[4] :> metadata)
        o == IF e.default THEN EvalDefault(ty, metaTy, env0)
             ELSE EvalCode(e.code, ty, env0)
        hdr == o.env[e.params[1]]
    IN [ran |-> ~o.returned, leftover |-> hdr.args, val |-> o.val, policy |-> o.policy,
        result |-> IF o.returned THEN Err(o.ret) ELSE ExhaustionCheck(hdr, o.val)]

\* <$type as ParseFunc>::parse(header, body, ctx, metadata)
ParseFuncParse(d, header, body, ctx, metadata) ==
    GeneratedParse(d.ty, MetaRule(d), ExpandParse(d), header, body, ctx, metadata)

(***************************************************************************)
(* The parse calls the scanner can make.                                   *)
(***************************************************************************)
ParseDecls ==
    {[ty |-> ty, metaDecl |-> m, default |-> TRUE, params |-> <<>>, code |-> NoCode] :
        ty \in TypeNames, m \in {"absent"} \cup MetaTypes}
    \cup
    {[ty |-> ty, metaDecl |-> m, default |-> FALSE,
      params |-> SubSeq(UserParams, 1, f[1]), code |-> f[2]] :
        ty \in TypeNames, m \in {"absent"} \cup MetaTypes,
        f \in {x \in (0..4) \X ParseCodes : UsedParams(x[2]) <= x[1]}}

CallsOf(d) ==
    [decl : {d}, header : {Header("func", a) : a \in SeqsUpTo(ArgValues, MaxArgs)},
     body : Bodies, ctx : ParseContexts, metadata : MetaValues(MetaRule(d))]

Calls == UNION {CallsOf(d) : d \in ParseDecls}

NoTrace ==
    [ran |-> FALSE, leftover |-> <<>>, val |-> NoValue, policy |-> RanOn(UnitYield),
     result |-> Err(NoError)]

InitParse ==
    /\ call \in Calls
    /\ ppc = "scanned"
    /\ last = NoTrace
    /\ nodes = <<>>
    /\ lctx = "none"
    /\ tasks = <<>>

\* The scanner calls the kind's parse on the invocation it recognised.
Parse ==
    /\ ppc = "scanned"
    /\ last' = ParseFuncParse(call.decl, call.header, call.body, call.ctx, call.metadata)
    /\ ppc' = "parsed"
    /\ UNCHANGED <<call, nodes, lctx, tasks>>

\* The scanner goes on to the next invocation of the kind.
Scan ==
    /\ ppc = "parsed"
    /\ call' \in CallsOf(call.decl)
    /\ ppc' = "scanned"
    /\ last' = NoTrace
    /\ UNCHANGED <<nodes, lctx, tasks>>

NextParse == Parse \/ Scan

SpecParse == InitParse /\ [][NextParse]_vars

(***************************************************************************)
(* Code blocks of layout definitions.                                      *)
(***************************************************************************)
\* A layout directive of Commands.
Command(op, data) == [op |-> op, data |-> data]

\* LayoutResult<Commands>
LayoutOk(cmds) == [ok |-> TRUE, cmds |-> cmds, err |-> NoError]
LayoutErr(e) == [ok |-> FALSE, cmds |-> <<>>, err |-> e]
NoResult == LayoutErr(NoError)

\* A layout code block:
\* base:    the directives the block always produces
\* useThis: whether it adds a directive made from the fields of `this`
\* nested:  whether it awaits the layout of the body's content, if there is
\*          one, with `?`, and adds its Commands (names `this` and `ctx`)
ThisOf(env, id) == IF id \in DOMAIN env THEN env[id] ELSE NoValue

\* Whether the block, run in env, reaches an await of a nested layout call.
Awaits(c, env) == c.nested /\ ThisOf(env, "this").body.tag \in {"some", "content"}

\* The directives of the block itself, before those of the nested call.
OwnCommands(c, env) ==
    c.base \o (IF c.useThis THEN <<Command("This", ThisOf(env, "this").args)>> ELSE <<>>)

(***************************************************************************)
(* function!: the layout rules and the generated LayoutFunc::layout.       *)
(***************************************************************************)
Layout2(this, ctx, code) == [params |-> <<this, ctx>>, code |-> code]

\* (0-arg) layout() $code => layout(self, _ctx) $code
RuleLayout0(code) == Layout2("self", "_ctx", code)

\* (1-arg) layout($this) $code => layout($this, _ctx) $code
RuleLayout1(this, code) == Layout2(this, "_ctx", code)

\* The rule a declaration's layout definition matches.
ExpandLayout(l) ==
    CASE Len(l.params) = 0 -> RuleLayout0(l.code)
      [] Len(l.params) = 1 -> RuleLayout1(l.params[1], l.code)
      [] Len(l.params) = 2 -> Layout2(l.params[1], l.params[2], l.code)

\* fn layout(&'a $this, $ctx) -> Pin<Box<dyn Future<...>>>: the future
\* `async move { Ok($code) }` captures the borrow of the value and the context.
GeneratedLayout(e, this, ctx) == (e.params[1] :> this) @@ (e.params[2] :> ctx)

\* Mutant of SharedBorrow: layout takes the body out of the value.
ExclusiveBorrow(v) == [v EXCEPT !.body = UnitYield]

\* &'a $this is a shared borrow: the value is the same after any step of layout.
SharedBorrow(v) == v

(***************************************************************************)
(* The document: kinds, invocations, tree nodes, layout futures.           *)
(***************************************************************************)
PCode(policy, take, validate, useMeta) ==
    [policy |-> policy, take |-> take, validate |-> validate, construct |-> FALSE,
     useMeta |-> useMeta]
PDecl(ty, m, k, c) ==
    [ty |-> ty, metaDecl |-> m, default |-> FALSE, params |-> SubSeq(UserParams, 1, k),
     code |-> c]
LDecl(k, base, useThis, nested) ==
    [params |-> SubSeq(<<"this", "ctx">>, 1, k),
     code |-> [base |-> base, useThis |-> useThis, nested |-> nested]]

\* The kinds of the document as declared, one for each form of parse and
\* layout definition.
ShortKinds ==
    { [p |-> PDecl("Bold", "absent", 2, PCode("forbidden", 0, FALSE, FALSE)),
       l |-> LDecl(0, <<Command("Base", <<>>)>>, FALSE, FALSE)],
      [p |-> PDecl("Box", "absent", 3, PCode("optional", 0, FALSE, FALSE)),
       l |-> LDecl(2, <<>>, FALSE, TRUE)],
      [p |-> PDecl("Align", "absent", 1, PCode("none", 1, TRUE, FALSE)),
       l |-> LDecl(1, <<>>, TRUE, FALSE)],
      [p |-> [ty |-> "Break", metaDecl |-> "absent", default |-> TRUE, params |-> <<>>,
              code |-> NoCode],
       l |-> LDecl(0, <<>>, FALSE, FALSE)],
      [p |-> PDecl("Page", "absent", 0, PCode("none", 0, FALSE, FALSE)),
       l |-> LDecl(1, <<Command("Base", <<>>)>>, FALSE, FALSE)],
      [p |-> PDecl("Styled", "Cfg", 4, PCode("expected_try", 1, FALSE, TRUE)),
       l |-> LDecl(2, <<Command("Base", <<>>)>>, TRUE, TRUE)] }

\* The same declaration written with all the parameters: parse(header, body,
\* ctx, meta) and layout(this, ctx), the code blocks unchanged.
FullParseDecl(d) == [d EXCEPT !.params = UserParams]
FullLayoutDecl(l) == [l EXCEPT !.params = <<"this", "ctx">>]
FullForm(k) ==
    [p |-> IF k.p.default THEN k.p ELSE FullParseDecl(k.p), l |-> FullLayoutDecl(k.l)]

Kinds == ShortKinds \cup {FullForm(k) : k \in ShortKinds}

DocArgs == {<<>>, <<"a">>, <<"bad">>}

\* The invocations the scanner can recognise in the document.
DocCalls ==
    UNION {[kind : {k}, header : {Header("func", a) : a \in DocArgs}, body : Bodies,
            ctx : {"scope1"}, metadata : MetaValues(MetaRule(k.p))] : k \in Kinds}

Nodes == 1..2
LayoutContexts == {"page", "tiny"}

NoCall == CHOOSE c \in DocCalls : TRUE
EmptyNode == [status |-> "empty", call |-> NoCall, trace |-> NoTrace, value |-> NoValue]

NoChild == [pc |-> "none", out |-> <<>>, result |-> NoResult]
IdleTask(pass) ==
    [pc |-> "idle", pass |-> pass, env |-> <<>>, child |-> NoChild, observed |-> NoResult,
     result |-> NoResult]

Init ==
    /\ call = CHOOSE c \in Calls : TRUE
    /\ ppc = "parsed"
    /\ last = NoTrace
    /\ nodes = [n \in Nodes |-> EmptyNode]
    /\ lctx \in LayoutContexts
    /\ tasks = [n \in Nodes |-> IdleTask(1)]

Scanned == \A n \in Nodes : nodes[n].status # "empty"

\* The scanner recognises the invocation of node n and calls the kind's parse;
\* the value of a successful parse is stored in the tree.
ParseNode(n) ==
    /\ nodes[n].status = "empty"
    /\ \A m \in Nodes : m < n => nodes[m].status # "empty"
    /\ \E c \in DocCalls :
          LET t == ParseFuncParse(c.kind.p, c.header, c.body, c.ctx, c.metadata)
          IN nodes' = [nodes EXCEPT ![n] =
                 [status |-> IF t.result.ok THEN "parsed" ELSE "failed", call |-> c,
                  trace |-> t, value |-> t.result.val]]
    /\ UNCHANGED <<call, ppc, last, lctx, tasks>>

\* The value of node n as a step of its layout call leaves it.
Borrowed(n) == [nodes EXCEPT ![n].value = SharedBorrow(@)]

LCode(n) == nodes[n].call.kind.l.code

\* The layout engine calls layout on the value of node n: the future is
\* created, and none of the code block has run.
LayoutCall(n) ==
    /\ Scanned
    /\ nodes[n].status = "parsed"
    /\ tasks[n].pc = "idle"
    /\ tasks' = [tasks EXCEPT ![n].pc = "created",
                              ![n].env = GeneratedLayout(ExpandLayout(nodes[n].call.kind.l),
                                                         nodes[n].value, lctx)]
    /\ nodes' = Borrowed(n)
    /\ UNCHANGED <<call, ppc, last, lctx>>

\* First poll of the future: the block runs to its await of the nested call,
\* or, if it has none, to its end.
Poll(n) ==
    /\ tasks[n].pc = "created"
    /\ IF Awaits(LCode(n), tasks[n].env)
       THEN tasks' = [tasks EXCEPT ![n].pc = "awaiting",
                                   ![n].child = [pc |-> "running", out |-> <<>>,
                                                 result |-> NoResult]]
       ELSE tasks' = [tasks EXCEPT ![n].pc = "done",
                                   ![n].result = LayoutOk(OwnCommands(LCode(n), tasks[n].env))]
    /\ nodes' = Borrowed(n)
    /\ UNCHANGED <<call, ppc, last, lctx>>

\* The content the nested call of node n lays out, and the context it gets.
ChildContent(n) == ThisOf(tasks[n].env, "this").body.content
ChildCtx(n) == CtxOf(tasks[n].env, "ctx")

\* The nested layout call produces its next directive.
ChildEmit(n) ==
    /\ tasks[n].child.pc = "running"
    /\ ChildCtx(n) = "page"
    /\ Len(tasks[n].child.out) < Len(ChildContent(n).src)
    /\ tasks' = [tasks EXCEPT ![n].child.out =
                     Append(@, Command("Add", <<ChildContent(n).src[Len(@) + 1]>>))]
    /\ nodes' = Borrowed(n)
    /\ UNCHANGED <<call, ppc, last, lctx>>

\* The nested layout call completes with all its directives.
ChildFinish(n) ==
    /\ tasks[n].child.pc = "running"
    /\ Len(tasks[n].child.out) = Len(ChildContent(n).src)
    /\ tasks' = [tasks EXCEPT ![n].child.pc = "done",
                              ![n].child.result = LayoutOk(tasks[n].child.out)]
    /\ nodes' = Borrowed(n)
    /\ UNCHANGED <<call, ppc, last, lctx>>

\* The nested layout call fails: its context has no room for a directive.
ChildFail(n) ==
    /\ tasks[n].child.pc = "running"
    /\ ChildCtx(n) # "page"
    /\ Len(tasks[n].child.out) < Len(ChildContent(n).src)
    /\ tasks' = [tasks EXCEPT ![n].child.pc = "done",
                              ![n].child.result = LayoutErr(WithMessage(<<"no space">>))]
    /\ nodes' = Borrowed(n)
    /\ UNCHANGED <<call, ppc, last, lctx>>

\* Mutant of ChildReady: the parent goes on whatever the nested future's state.
ChildReadyAlways(t) == TRUE

\* `.await` on the nested future is ready once that future has completed.
ChildReady(t) == t.child.pc = "done"

\* The parent is polled again and its await yields the nested call's output.
Resume(n) ==
    /\ tasks[n].pc = "awaiting"
    /\ ChildReady(tasks[n])
    /\ tasks' = [tasks EXCEPT ![n].pc = "resumed", ![n].observed = tasks[n].child.result]
    /\ nodes' = Borrowed(n)
    /\ UNCHANGED <<call, ppc, last, lctx>>

\* The rest of the block runs: `?` returns the nested error, else Ok($code).
Complete(n) ==
    /\ tasks[n].pc = "resumed"
    /\ tasks' = [tasks EXCEPT ![n].pc = "done",
                              ![n].result =
                                  IF tasks[n].observed.ok
                                  THEN LayoutOk(OwnCommands(LCode(n), tasks[n].env)
                                                \o tasks[n].observed.cmds)
                                  ELSE LayoutErr(tasks[n].observed.err)]
    /\ nodes' = Borrowed(n)
    /\ UNCHANGED <<call, ppc, last, lctx>>

\* The engine has consumed the Commands of every node; a later layout pass
\* lays the values out again.
NextPass ==
    /\ Scanned
    /\ \E n \in Nodes : nodes[n].status = "parsed"
    /\ \A n \in Nodes : nodes[n].status = "parsed" => tasks[n].pc = "done"
    /\ \A n \in Nodes : tasks[n].pass < MaxPasses
    /\ tasks' = [n \in Nodes |-> IdleTask(tasks[n].pass + 1)]
    /\ UNCHANGED <<call, ppc, last, nodes, lctx>>

Next ==
    \/ \E n \in Nodes :
          \/ ParseNode(n)
          \/ LayoutCall(n)
          \/ Poll(n)
          \/ ChildEmit(n)
          \/ ChildFinish(n)
          \/ ChildFail(n)
          \/ Resume(n)
          \/ Complete(n)
    \/ NextPass

Spec == Init /\ [][Next]_vars

(***************************************************************************)
(* Claims about the parse call (checked under SpecParse).                  *)
(***************************************************************************)
UnexpectedArguments == WithMessage(<<"unexpected arguments">>)
UnexpectedBody == WithMessage(<<"unexpected body">>)

Parsed == ppc = "parsed"
Code == call.decl.code
Args == call.header.args
\* The arguments the block takes off the header, and whether one is bad.
Taken == SubSeq(Args, 1, Min(Code.take, Len(Args)))
TakesBad == \E i \in 1..Len(Taken) : Taken[i] = "bad"
UsesPolicy(p) == ~call.decl.default /\ Code.policy = p

\* C1: whenever the kind's parse code runs to completion, the call returns
\* the error "unexpected arguments" (and no value) if header.args is still
\* non-empty, and Ok of exactly the value the code produced if it is empty.
C1_ArgumentExhaustion ==
    Parsed /\ last.ran =>
        /\ last.leftover = SubSeq(Args, Len(Taken) + 1, Len(Args))
        /\ IF last.leftover # <<>>
           THEN /\ ~last.result.ok
                /\ last.result.err.message = <<"unexpected arguments">>
                /\ last.result.val = NoValue
           ELSE /\ last.result.ok
                /\ last.result.val = last.val

C1_Witness ==
    /\ Parsed /\ last.ran /\ ~call.decl.default
    /\ Code.take > 0 /\ Len(Args) > Code.take
    /\ last.result = Err(UnexpectedArguments)

\* C2: under the forbidden-body policy the call fails with "unexpected body"
\* if and only if a body is present (the empty text included); with no body
\* the policy yields nothing and the rest of the kind's code runs.
C2_ForbiddenBody ==
    Parsed /\ UsesPolicy("forbidden") =>
        /\ (last.result = Err(UnexpectedBody)) <=> call.body.some
        /\ ~call.body.some =>
              /\ ~last.policy.returned
              /\ last.policy.yield = UnitYield
              /\ last.ran <=> ~(Code.validate /\ TakesBad)

C2_Witness ==
    /\ Parsed /\ UsesPolicy("forbidden")
    /\ call.body = SomeBody(<<>>)
    /\ last.result = Err(UnexpectedBody)

\* C3: the optional-body policy yields none for an absent body, without a
\* call of the document parser; for a present body B it yields the tree that
\* syntax::parse(B, ctx) yields; it never ends the enclosing call.
C3_OptionalBody ==
    Parsed /\ UsesPolicy("optional") =>
        /\ ~last.policy.returned
        /\ ~call.body.some =>
              /\ last.policy.yield = Yield("none", NoContent, NoError)
              /\ last.policy.parses = <<>>
        /\ call.body.some =>
              /\ last.policy.yield.tag = "some"
              /\ last.policy.yield.content = SyntaxParse(call.body.text, call.ctx)[1]
              /\ last.policy.parses = <<<<call.body.text, call.ctx>>>>
        /\ last.ran => last.val.body = last.policy.yield

C3_Witness ==
    /\ Parsed /\ UsesPolicy("optional")
    /\ call.body = SomeBody(<<>>)
    /\ last.result.ok
    /\ last.result.val.body.tag = "some"

\* C4: under the expected-body policy a call with an absent body always fails
\* with "unexpected body", whatever the header arguments; for a present body
\* the policy yields the content the optional policy yields.
C4_ExpectedBody ==
    Parsed /\ (UsesPolicy("expected") \/ UsesPolicy("expected_try")) =>
        /\ ~call.body.some => last.result = Err(UnexpectedBody)
        /\ call.body.some =>
              last.policy.yield.content
                  = ParseOptional(call.body, call.ctx).yield.content

\* C5 as stated: a parse(default) kind succeeds, for empty header arguments,
\* with the default value of the metadata type.
C5_DefaultIsMetaDefault ==
    Parsed /\ call.decl.default =>
        IF Args = <<>>
        THEN last.result = Ok(DefaultValue(MetaRule(call.decl)))
        ELSE last.result = Err(UnexpectedArguments)

\* C5 amended: a parse(default) kind never inspects arguments, body, context
\* or metadata; for every body and context, with empty header arguments the
\* call succeeds with the default value of the command type (Self), and with
\* non-empty header arguments it fails with "unexpected arguments".
C5_DefaultIsSelfDefault ==
    Parsed /\ call.decl.default =>
        /\ last.ran
        /\ last.leftover = Args
        /\ last.policy.parses = <<>>
        /\ IF Args = <<>>
           THEN last.result = Ok(DefaultValue(call.decl.ty))
           ELSE last.result = Err(UnexpectedArguments)

C5_Witness ==
    /\ Parsed /\ call.decl.default
    /\ call.decl.metaDecl = "Cfg" /\ call.metadata = "cfg1"
    /\ call.body.some /\ Args = <<>>
    /\ last.result = Ok(DefaultValue("Func"))

\* C8 as stated: the argument-exhaustion check fails with the message of
\* error!(@unexpected_argument).
C8_CheckReusesCanonical ==
    Parsed /\ last.ran /\ last.leftover # <<>> =>
        last.result.err = ErrorUnexpectedArgument

\* C8 amended: the message of error!(@unexpected_argument) is "unexpected
\* argument"; the argument-exhaustion check fails with another message,
\* "unexpected arguments", and does not reuse the canonical one.
C8_CheckHasOwnMessage ==
    Parsed /\ last.ran /\ last.leftover # <<>> =>
        /\ ErrorUnexpectedArgument.message = <<"unexpected argument">>
        /\ last.result.err.message = <<"unexpected arguments">>
        /\ last.result.err # ErrorUnexpectedArgument

C8_Witness ==
    /\ Parsed /\ last.ran /\ last.leftover # <<>>
    /\ ~call.decl.default /\ Code.construct
    /\ last.val.diag = ErrorUnexpectedArgument
    /\ ~last.result.ok

\* C10: an error the kind's own code raises (error!(...) or a forbidden
\* body) ends the call at once and is its result, also when arguments are
\* left over; error!(@...) only builds an error value and the call goes on.
C10_KindErrorEndsCall ==
    Parsed /\ ~call.decl.default =>
        /\ Code.policy = "forbidden" /\ call.body.some =>
              /\ ~last.ran
              /\ last.result = Err(UnexpectedBody)
        /\ Code.policy \in {"none", "optional", "expected"} /\ Code.validate /\ TakesBad =>
              /\ ~last.ran
              /\ last.result = Err(WithMessage(<<"invalid argument: ", "bad">>))
        /\ Code.policy \in {"none", "optional", "expected"} /\ ~(Code.validate /\ TakesBad)
           /\ Code.construct =>
              /\ last.ran
              /\ last.val.diag = WithMessage(<<"unexpected argument">>)
              /\ last.result.ok <=> last.leftover = <<>>

C10_Witness ==
    /\ Parsed /\ UsesPolicy("forbidden")
    /\ call.body.some
    /\ Len(Args) > Code.take
    /\ last.result = Err(UnexpectedBody)

(***************************************************************************)
(* Claims about the document pipeline (checked under Spec).                *)
(***************************************************************************)
\* The Commands of a completed nested layout call on content.
NestedCommands(content) ==
    [i \in 1..Len(content.src) |-> Command("Add", <<content.src[i]>>)]

\* C6: a parent layout call that awaits a nested call resumes only after the
\* nested call has completed; what it then observes is the complete result
\* of that call, never a part of it; and its own result is produced only
\* after the nested call has completed.
C6_AwaitObservesCompleted ==
    \A n \in Nodes :
        LET t == tasks[n] IN
        /\ t.pc \in {"resumed", "done"} /\ t.child.pc # "none" =>
              /\ t.child.pc = "done"
              /\ t.observed = t.child.result
              /\ t.observed.ok => t.observed.cmds = NestedCommands(nodes[n].value.body.content)
        /\ t.child.pc = "running" => t.pc = "awaiting" /\ t.result = NoResult
        /\ t.pc = "done" /\ t.result.ok /\ t.child.pc # "none" =>
              t.result.cmds
                  = OwnCommands(LCode(n), t.env) \o NestedCommands(nodes[n].value.body.content)

C6_Witness ==
    /\ tasks[1].pc = "resumed"
    /\ Len(tasks[1].observed.cmds) = MaxBodyLen
    /\ tasks[2].pc = "awaiting"
    /\ tasks[2].child.pc = "running"
    /\ Len(tasks[2].child.out) > 0

FullFormLayout(n) ==
    LET code == LCode(n)
        env == GeneratedLayout(Layout2("this", "ctx", code), nodes[n].value, lctx)
        content == nodes[n].value.body.content
    IN IF ~Awaits(code, env) THEN LayoutOk(OwnCommands(code, env))
       ELSE IF lctx # "page" /\ Len(content.src) > 0
            THEN LayoutErr(WithMessage(<<"no space">>))
            ELSE LayoutOk(OwnCommands(code, env) \o NestedCommands(content))

\* C9: every shorthand form gives what the full form gives with the omitted
\* parameters unused: a parse call of a kind declared as parse(), parse(header),
\* parse(header, body) or parse(header, body, ctx) does what the call of
\* parse(header, body, ctx, meta) with the same code does, the argument check
\* included, and layout() and layout(this) return what layout(this, ctx) returns.
C9_ShorthandForms ==
    \A n \in Nodes :
        LET c == nodes[n].call IN
        /\ nodes[n].status # "empty" /\ ~c.kind.p.default =>
              nodes[n].trace
                  = ParseFuncParse(FullParseDecl(c.kind.p), c.header, c.body, c.ctx, c.metadata)
        /\ tasks[n].pc = "done" => tasks[n].result = FullFormLayout(n)

C9_Witness ==
    /\ nodes[1].status = "parsed" /\ nodes[1].call.kind.p.ty = "Align"
    /\ Len(nodes[1].call.kind.p.params) = 1 /\ Len(nodes[1].call.kind.l.params) = 1
    /\ tasks[1].pc = "done" /\ tasks[1].result = LayoutOk(<<Command("This", <<"a">>)>>)
    /\ nodes[2].status = "failed" /\ nodes[2].call.kind.p.ty = "Box"
    /\ Len(nodes[2].call.kind.p.params) = 3
    /\ nodes[2].trace.result = Err(UnexpectedArguments)

====
